---- MODULE Spec2Model ----
(***************************************************************************)
(* Model of airpods-and-bluetooth-battery.py: the BLE scan loop that runs  *)
(* on a background thread (Application.scan_and_update), the Tk event loop *)
(* that runs the callbacks scheduled with self.after (status_label.config  *)
(* and Application.update_gui), and the manufacturer-data decoder          *)
(* (parse_airpods_data).                                                   *)
(***************************************************************************)
EXTENDS Integers, Sequences, FiniteSets, TLC

VARIABLES
    wpc,            \* position of the worker coroutine in scan_and_update
    cycle,          \* number of the while-loop iteration the worker is in
    discovered,     \* scanner.discovered_devices_and_advertisement_data.values()
    idx,            \* position of the for loop in discovered
    devices_found,  \* the dict object the local devices_found is bound to
    heap,           \* dict objects alive: reference -> ordered entries
    queue,          \* callbacks scheduled with self.after(0, ...), oldest first
    status,         \* status_label's text
    device_frames,  \* Application.device_frames, in insertion order
    last,           \* the callback the event loop ran last
    raw,            \* decoder harness: argument of parse_airpods_data
    result          \* decoder harness: what parse_airpods_data returned

vars == <<wpc, cycle, discovered, idx, devices_found, heap, queue, status,
          device_frames, last, raw, result>>

-----------------------------------------------------------------------------
(* Bounds *)

MaxCycles == 2
MaxObs == 2

-----------------------------------------------------------------------------
(* Constants of the program *)

APPLE_MANUFACTURER_ID == 76
DATA_LENGTH == 27
BATTERY_SERVICE_UUID == "0000180f-0000-1000-8000-00805f9b34fb"

ScanningStatus == "Scanning..."
ScanCompleteStatus == "Scan complete. Next scan in 15s."
NoDevicesStatus == "No devices found. Retrying..."

\* dev.name is None or a string: None is the empty tuple, the string s the
\* tuple <<s>>, so that no string is taken for None.
NoneName == <<>>
Name(s) == <<s>>

\* Python's None as a battery level
NoneLevel == -1
IndexError == [raised |-> "IndexError"]

-----------------------------------------------------------------------------
(* parse_airpods_data *)

HexDigits == <<"0", "1", "2", "3", "4", "5", "6", "7",
               "8", "9", "a", "b", "c", "d", "e", "f">>

\* bytes.hex(): two lowercase hex characters per byte, high nibble first
hex(bytes) ==
    [i \in 1..(2 * Len(bytes)) |->
        LET b == bytes[(i + 1) \div 2]
        IN  IF i % 2 = 1 THEN HexDigits[(b \div 16) + 1]
                         ELSE HexDigits[(b % 16) + 1]]

\* int(hex_char, 16)
int16(hex_char) == (CHOOSE k \in 1..16 : HexDigits[k] = hex_char) - 1

\* get_level with level < 10 in place of level <= 10
get_level_below_ten(hex_char) ==
    LET level == int16(hex_char)
    IN  IF level < 10 THEN level * 10 ELSE NoneLevel

get_level(hex_char) ==
    LET level == int16(hex_char)
    IN  IF level <= 10 THEN level * 10 ELSE NoneLevel

\* Python index k of a string is element k + 1 of the sequence; an index
\* past the end raises IndexError.
parse_airpods_data(raw_data) ==
    LET hex_data == hex(raw_data)
    IN  IF Len(hex_data) < 16
        THEN IndexError
        ELSE [Left  |-> get_level(hex_data[13]),
              Right |-> get_level(hex_data[14]),
              Case  |-> get_level(hex_data[16])]

-----------------------------------------------------------------------------
(* Advertisements the scanner can report *)

\* Raw manufacturer data of n bytes: byte 6 and byte 7 (hex characters
\* 12..15) are given, every other byte is the filler.
MkData(n, b6, b7, filler) ==
    [i \in 1..n |-> IF i = 7 THEN b6 ELSE IF i = 8 THEN b7 ELSE filler]

Byte == 0..255

Obs(address, name, manufacturer_data, service_uuids) ==
    [address |-> address, name |-> name,
     manufacturer_data |-> manufacturer_data, service_uuids |-> service_uuids]

\* One (dev, adv) pair per address, as the scanner's dict is keyed by address.
Observations ==
    { Obs("AA:01", Name("AirPods"),
          APPLE_MANUFACTURER_ID :> MkData(DATA_LENGTH, 165, 48, 7), {}),
      Obs("AA:02", NoneName,
          APPLE_MANUFACTURER_ID :> MkData(DATA_LENGTH, 75, 15, 7),
          {BATTERY_SERVICE_UUID}),
      Obs("AA:03", Name("AirPods"),
          APPLE_MANUFACTURER_ID :> MkData(DATA_LENGTH - 20, 165, 48, 7),
          {BATTERY_SERVICE_UUID}),
      Obs("AA:04", Name(""), <<>>, {BATTERY_SERVICE_UUID}),
      Obs("AA:05", NoneName,
          APPLE_MANUFACTURER_ID :> MkData(DATA_LENGTH + 1, 165, 48, 7), {}) }

RECURSIVE SeqsOver(_, _)
\* The sequences of at most n distinct elements of S
SeqsOver(S, n) ==
    IF n = 0 THEN {<<>>}
    ELSE LET shorter == SeqsOver(S, n - 1)
         IN  shorter \cup
             { Append(q, x) : q \in {p \in shorter : Len(p) = n - 1},
                              x \in S }

Distinct(q) == \A i, j \in 1..Len(q) : i # j => q[i] # q[j]

Enumerations == { q \in SeqsOver(Observations, MaxObs) : Distinct(q) }

-----------------------------------------------------------------------------
(* The for loop of scan_and_update *)

\* dev.name or default: None and the empty string are falsy, every other
\* string is kept
NameOr(name, default) ==
    IF name = NoneName \/ name = Name("") THEN default ELSE name[1]

Names(d) == { d[i].name : i \in 1..Len(d) }

\* The first predicate without its length test
IsAirPodsNoLengthCheck(adv) ==
    APPLE_MANUFACTURER_ID \in DOMAIN adv.manufacturer_data

\* The first predicate with <= in place of ==
IsAirPodsAtMostLength(adv) ==
    /\ APPLE_MANUFACTURER_ID \in DOMAIN adv.manufacturer_data
    /\ Len(adv.manufacturer_data[APPLE_MANUFACTURER_ID]) <= DATA_LENGTH

\* The first predicate of the for loop
IsAirPods(adv) ==
    /\ APPLE_MANUFACTURER_ID \in DOMAIN adv.manufacturer_data
    /\ Len(adv.manufacturer_data[APPLE_MANUFACTURER_ID]) = DATA_LENGTH

\* The elif predicate of the for loop
IsStandard(adv) == BATTERY_SERVICE_UUID \in adv.service_uuids

\* devices_found[name] = info on a dict kept in insertion order
SetItem(d, name, info) ==
    IF name \in Names(d)
    THEN [i \in 1..Len(d) |->
            IF d[i].name = name THEN [name |-> name, info |-> info] ELSE d[i]]
    ELSE Append(d, [name |-> name, info |-> info])

\* The loop body without its "if name not in devices_found" guards
ClassifyOverwriting(found, ob) ==
    IF IsAirPods(ob)
    THEN SetItem(found, NameOr(ob.name, "AirPods"),
                 [type |-> "airpods",
                  data |-> ob.manufacturer_data[APPLE_MANUFACTURER_ID]])
    ELSE IF IsStandard(ob)
    THEN SetItem(found, NameOr(ob.name, "Unknown Device"),
                 [type |-> "standard", address |-> ob.address])
    ELSE found

\* One iteration of the for loop on the dict found
Classify(found, ob) ==
    IF IsAirPods(ob)
    THEN LET name == NameOr(ob.name, "AirPods")
         IN  IF name \notin Names(found)
             THEN SetItem(found, name,
                     [type |-> "airpods",
                      data |-> ob.manufacturer_data[APPLE_MANUFACTURER_ID]])
             ELSE found
    ELSE IF IsStandard(ob)
    THEN LET name == NameOr(ob.name, "Unknown Device")
         IN  IF name \notin Names(found)
             THEN SetItem(found, name,
                     [type |-> "standard", address |-> ob.address])
             ELSE found
    ELSE found

-----------------------------------------------------------------------------
(* Dict objects *)

NoRef == 0

QueuedRefs(q) == { q[i].ref : i \in 1..Len(q) } \ {NoRef}

\* Reference counting: a dict lives while the local or a scheduled
\* callback holds it.
Collect(h, live) == [r \in (DOMAIN h \cap live) |-> h[r]]

NewRef(h) == CHOOSE r \in 1..(Cardinality(DOMAIN h) + 1) : r \notin DOMAIN h

\* A dict created once and cleared at the top of each iteration
ReusedDict(h, cur, q) ==
    IF cur = NoRef
    THEN [ref |-> NewRef(h), heap |-> (NewRef(h) :> <<>>) @@ h]
    ELSE [ref |-> cur, heap |-> [h EXCEPT ![cur] = <<>>]]

\* devices_found = {}: a new dict object; the one bound before is dropped
\* unless a scheduled callback still holds it.
FreshDict(h, cur, q) ==
    LET kept == Collect(h, QueuedRefs(q))
        r == NewRef(kept)
    IN  [ref |-> r, heap |-> (r :> <<>>) @@ kept]

-----------------------------------------------------------------------------
(* The presentation: DeviceBatteryFrame and Application.update_gui *)

\* DeviceBatteryFrame.__init__ and set_battery_level
DeviceBatteryFrame(name, level) ==
    IF level # NoneLevel
    THEN [name |-> name, value |-> level, text |-> ToString(level) \o "%",
          style |-> IF level > 50 THEN "green"
                    ELSE IF level > 20 THEN "orange" ELSE "red"]
    ELSE [name |-> name, value |-> 0, text |-> "N/A", style |-> "grey"]

StandardLabel == [text |-> "Standard battery device detected."]

\* "Remove old frames": the containers whose name is not in devices go
RemoveOld(frames, devices) ==
    SelectSeq(frames, LAMBDA f : f.name \in Names(devices))

SetChildren(frames, name, children) ==
    [i \in 1..Len(frames) |->
        IF frames[i].name = name
        THEN [name |-> name, children |-> children] ELSE frames[i]]

RECURSIVE AddOrUpdate(_, _, _)
\* "Add/update frames" from item i of devices on: a container per new name,
\* its old widgets destroyed, its new ones built. An exception raised by the
\* decoder ends the callback there.
AddOrUpdate(devices, i, frames) ==
    IF i > Len(devices)
    THEN [frames |-> frames, error |-> FALSE]
    ELSE LET name == devices[i].name
             info == devices[i].info
             held == IF name \in Names(frames) THEN frames
                     ELSE Append(frames, [name |-> name, children |-> <<>>])
             cleared == SetChildren(held, name, <<>>)
         IN  IF info.type = "airpods"
             THEN LET battery_data == parse_airpods_data(info.data)
                  IN  IF battery_data = IndexError
                      THEN [frames |-> cleared, error |-> TRUE]
                      ELSE AddOrUpdate(devices, i + 1,
                              SetChildren(cleared, name,
                                 <<DeviceBatteryFrame("Left", battery_data.Left),
                                   DeviceBatteryFrame("Right", battery_data.Right),
                                   DeviceBatteryFrame("Case", battery_data.Case)>>))
             ELSE AddOrUpdate(devices, i + 1,
                              SetChildren(cleared, name, <<StandardLabel>>))

\* update_gui returning on an empty mapping without setting the status
update_gui_keeping_status(devices, frames, st) ==
    IF Len(devices) = 0
    THEN [frames |-> frames, status |-> st, error |-> FALSE]
    ELSE LET r == AddOrUpdate(devices, 1, RemoveOld(frames, devices))
         IN  [frames |-> r.frames, status |-> st, error |-> r.error]

\* update_gui(devices) on the frames held and the status shown
update_gui(devices, frames, st) ==
    IF Len(devices) = 0
    THEN [frames |-> frames, status |-> NoDevicesStatus, error |-> FALSE]
    ELSE LET r == AddOrUpdate(devices, 1, RemoveOld(frames, devices))
         IN  [frames |-> r.frames, status |-> st, error |-> r.error]

-----------------------------------------------------------------------------
(* Initial state: Application.__init__ *)

StatusCall(c, text) ==
    [op |-> "status", cycle |-> c, text |-> text, ref |-> NoRef]

UpdateCall(c, ref) ==
    [op |-> "update_gui", cycle |-> c, text |-> "", ref |-> ref]

Ran(op, c, text, devices, error) ==
    [op |-> op, cycle |-> c, text |-> text, devices |-> devices,
     error |-> error]

NotCalled == [called |-> FALSE]

InitApp ==
    /\ wpc = "loop"
    /\ cycle = 0
    /\ discovered = <<>>
    /\ idx = 0
    /\ devices_found = NoRef
    /\ heap = <<>>
    /\ queue = <<>>
    /\ status = ScanningStatus
    /\ device_frames = <<>>
    /\ last = Ran("none", 0, "", <<>>, FALSE)

Init ==
    /\ InitApp
    /\ raw = <<>>
    /\ result = NotCalled

-----------------------------------------------------------------------------
(* The worker: Application.scan_and_update *)

\* self.after(0, callback, ...): Tk runs the callbacks of equal delay in the
\* order they were scheduled.
after(q, call) == Append(q, call)

\* while True: self.after(0, self.status_label.config, {"text": "Scanning..."})
W_SignalScanning ==
    /\ wpc = "loop"
    /\ cycle < MaxCycles
    /\ cycle' = cycle + 1
    /\ queue' = after(queue, StatusCall(cycle + 1, ScanningStatus))
    /\ wpc' = "newdict"
    /\ UNCHANGED <<discovered, idx, devices_found, heap, status, device_frames,
                   last, raw, result>>

\* devices_found = {}
W_NewDict ==
    /\ wpc = "newdict"
    /\ LET d == FreshDict(heap, devices_found, queue)
       IN  /\ devices_found' = d.ref
           /\ heap' = d.heap
    /\ wpc' = "scan"
    /\ UNCHANGED <<cycle, discovered, idx, queue, status, device_frames, last,
                   raw, result>>

\* The scanner raises on entering the async with block, during the listen
\* window, or on leaving the block after the for loop: nothing in
\* scan_and_update or ble_scanner_thread catches it, the coroutine and the
\* thread end.
W_ScannerFails ==
    /\ wpc \in {"scan", "close"}
    /\ wpc' = "terminated"
    /\ devices_found' = NoRef
    /\ heap' = Collect(heap, QueuedRefs(queue))
    /\ UNCHANGED <<cycle, discovered, idx, queue, status, device_frames, last,
                   raw, result>>

\* The scanner opens, the 5 s window passes, the for loop gets the values
W_Listen ==
    /\ wpc = "scan"
    /\ \E seen \in Enumerations :
          /\ discovered' = seen
          /\ wpc' = IF Len(seen) = 0 THEN "close" ELSE "classify"
    /\ idx' = 1
    /\ UNCHANGED <<cycle, devices_found, heap, queue, status, device_frames,
                   last, raw, result>>

\* One iteration of the for loop
W_Classify ==
    /\ wpc = "classify"
    /\ heap' = [heap EXCEPT
                  ![devices_found] = Classify(@, discovered[idx])]
    /\ idx' = idx + 1
    /\ wpc' = IF idx = Len(discovered) THEN "close" ELSE "classify"
    /\ UNCHANGED <<cycle, discovered, devices_found, queue, status,
                   device_frames, last, raw, result>>

\* The for loop is over: the async with block is left, the scanner stops
W_CloseScanner ==
    /\ wpc = "close"
    /\ wpc' = "publish"
    /\ UNCHANGED <<cycle, discovered, idx, devices_found, heap, queue, status,
                   device_frames, last, raw, result>>

\* update_gui called on the worker thread instead of being scheduled
W_PublishDirectly ==
    /\ wpc = "publish"
    /\ LET r == update_gui(heap[devices_found], device_frames, status)
       IN  /\ device_frames' = r.frames
           /\ status' = r.status
           /\ last' = Ran("update_gui", cycle, "", heap[devices_found],
                          r.error)
    /\ wpc' = "complete"
    /\ UNCHANGED <<cycle, discovered, idx, devices_found, heap, queue, raw,
                   result>>

\* self.after(0, self.update_gui, devices_found)
W_Publish ==
    /\ wpc = "publish"
    /\ queue' = after(queue, UpdateCall(cycle, devices_found))
    /\ wpc' = "complete"
    /\ UNCHANGED <<cycle, discovered, idx, devices_found, heap, status,
                   device_frames, last, raw, result>>

\* The loop without its second status call
W_SignalCompleteForgotten ==
    /\ wpc = "complete"
    /\ wpc' = "sleep"
    /\ UNCHANGED <<cycle, discovered, idx, devices_found, heap, queue, status,
                   device_frames, last, raw, result>>

\* self.after(0, self.status_label.config, {"text": "Scan complete. ..."})
W_SignalComplete ==
    /\ wpc = "complete"
    /\ queue' = after(queue, StatusCall(cycle, ScanCompleteStatus))
    /\ wpc' = "sleep"
    /\ UNCHANGED <<cycle, discovered, idx, devices_found, heap, status,
                   device_frames, last, raw, result>>

\* await asyncio.sleep(15), then back to the top of the loop
W_Sleep ==
    /\ wpc = "sleep"
    /\ wpc' = "loop"
    /\ UNCHANGED <<cycle, discovered, idx, devices_found, heap, queue, status,
                   device_frames, last, raw, result>>

-----------------------------------------------------------------------------
(* The Tk event loop: app.mainloop() runs the scheduled callbacks *)

\* status_label.config({"text": ...})
G_StatusConfig ==
    /\ queue # <<>>
    /\ Head(queue).op = "status"
    /\ status' = Head(queue).text
    /\ last' = Ran("status", Head(queue).cycle, Head(queue).text, <<>>, FALSE)
    /\ queue' = Tail(queue)
    /\ UNCHANGED <<wpc, cycle, discovered, idx, devices_found, heap,
                   device_frames, raw, result>>

\* update_gui(devices_found); an exception it raises is reported by Tk and
\* the event loop goes on.
G_UpdateGui ==
    /\ queue # <<>>
    /\ Head(queue).op = "update_gui"
    /\ LET devices == heap[Head(queue).ref]
           r == update_gui(devices, device_frames, status)
       IN  /\ device_frames' = r.frames
           /\ status' = r.status
           /\ last' = Ran("update_gui", Head(queue).cycle, "", devices,
                          r.error)
    /\ queue' = Tail(queue)
    /\ heap' = Collect(heap, QueuedRefs(Tail(queue)) \cup {devices_found})
    /\ UNCHANGED <<wpc, cycle, discovered, idx, devices_found, raw, result>>

Next ==
    \/ W_SignalScanning
    \/ W_NewDict
    \/ W_ScannerFails
    \/ W_Listen
    \/ W_Classify
    \/ W_CloseScanner
    \/ W_Publish
    \/ W_SignalComplete
    \/ W_Sleep
    \/ G_StatusConfig
    \/ G_UpdateGui

Spec == Init /\ [][Next]_vars

-----------------------------------------------------------------------------
(* The decoder on its own: parse_airpods_data applied to an input *)

\* Lengths of the inputs: the length the scan loop lets through, the
\* shortest one that decodes, and one byte less.
DecodeLengths == {DATA_LENGTH, 8, 7}

\* Inputs: every value of bytes 6 and 7, over two fillers
InitDecode ==
    /\ InitApp
    /\ \E n \in DecodeLengths, b6 \in Byte, b7 \in Byte, filler \in {0, 255} :
          raw = MkData(n, b6, b7, filler)
    /\ result = NotCalled

D_Parse ==
    /\ result = NotCalled
    /\ result' = parse_airpods_data(raw)
    /\ UNCHANGED <<wpc, cycle, discovered, idx, devices_found, heap, queue,
                   status, device_frames, last, raw>>

NextDecode == D_Parse

SpecDecode == InitDecode /\ [][NextDecode]_vars

-----------------------------------------------------------------------------
(* Properties *)

Qualifies(ob) == IsAirPods(ob) \/ IsStandard(ob)

ResolvedName(ob) ==
    IF IsAirPods(ob) THEN NameOr(ob.name, "AirPods")
    ELSE NameOr(ob.name, "Unknown Device")

InfoOf(ob) ==
    IF IsAirPods(ob)
    THEN [type |-> "airpods",
          data |-> ob.manufacturer_data[APPLE_MANUFACTURER_ID]]
    ELSE [type |-> "standard", address |-> ob.address]

\* The for loop has ended in this cycle: devices_found is the cycle's snapshot
LoopDone ==
    wpc \in {"close", "publish", "complete", "sleep", "loop"} /\ cycle > 0

Snapshot == heap[devices_found]

EntriesNamed(d, name) == { k \in 1..Len(d) : d[k].name = name }

\* The first qualifying observation that resolves to the name of ob
FirstOf(obs, name) ==
    CHOOSE j \in 1..Len(obs) :
        /\ Qualifies(obs[j]) /\ ResolvedName(obs[j]) = name
        /\ \A m \in 1..(j - 1) :
              ~(Qualifies(obs[m]) /\ ResolvedName(obs[m]) = name)

RECURSIVE ClassifyAll(_, _)
\* The dict the for loop has built after the first n observations
ClassifyAll(obs, n) ==
    IF n = 0 THEN <<>> ELSE Classify(ClassifyAll(obs, n - 1), obs[n])

\* C1: once update_gui has been applied to a cycle's snapshot, the
\* presentation holds no device that is absent from that snapshot, the
\* empty snapshot included.
C1_FramesWithinAppliedSnapshot ==
    last.op = "update_gui" => Names(device_frames) \subseteq Names(last.devices)

\* C2: a cycle in which no observation qualifies still schedules update_gui
\* with the empty mapping, and applying it sets the status "No devices
\* found. Retrying..." without raising.
C2_EmptyCyclePublishedAndSignalled ==
    /\ (LoopDone /\ \A i \in 1..Len(discovered) : ~Qualifies(discovered[i]))
          => Len(Snapshot) = 0
    /\ wpc \in {"complete", "sleep", "loop"} /\ cycle > 0
          => \/ \E i \in 1..Len(queue) :
                   queue[i] = UpdateCall(cycle, devices_found)
             \/ (last.cycle = cycle /\ last.op = "update_gui"
                                   /\ last.devices = Snapshot)
             \/ (last.cycle = cycle /\ last.text = ScanCompleteStatus)
    /\ (last.op = "update_gui" /\ Len(last.devices) = 0)
          => (status = NoDevicesStatus /\ ~last.error)

C2_Witness ==
    /\ last.op = "update_gui" /\ Len(last.devices) = 0
    /\ last.cycle = cycle /\ Len(discovered) > 0
    /\ status = NoDevicesStatus

\* b is the update that comes after a in the order of the cycles
Follows(a, b) ==
    \/ a.op = "none" /\ b.op = "status" /\ b.text = ScanningStatus
                     /\ b.cycle = 1
    \/ a.op = "status" /\ a.text = ScanningStatus
                       /\ b.op = "update_gui" /\ b.cycle = a.cycle
    \/ a.op = "update_gui" /\ b.op = "status" /\ b.text = ScanCompleteStatus
                           /\ b.cycle = a.cycle
    \/ a.op = "status" /\ a.text = ScanCompleteStatus
                       /\ b.op = "status" /\ b.text = ScanningStatus
                       /\ b.cycle = a.cycle + 1

\* C3: the event loop applies each cycle's updates in the order status
\* "Scanning...", update_gui, status "Scan complete. Next scan in 15s.", and
\* applies no update of the next cycle before the three of this one.
C3_UpdatesAppliedInOrder == [][last' # last => Follows(last, last')]_vars

C3_Witness ==
    /\ last.op = "status" /\ last.text = ScanningStatus /\ last.cycle = 2
    /\ wpc = "sleep"

\* C4: no scan failure ends the loop or the worker.
C4_WorkerNeverEnds == wpc # "terminated"

\* C5: observations of one cycle that resolve to the same name leave exactly
\* one entry of that name in the snapshot, with the kind and payload of the
\* first of them in enumeration order.
C5_FirstSeenWins ==
    LoopDone =>
        \A i \in 1..Len(discovered) :
            Qualifies(discovered[i]) =>
                LET name == ResolvedName(discovered[i])
                    at == EntriesNamed(Snapshot, name)
                IN  /\ Cardinality(at) = 1
                    /\ \A k \in at :
                          Snapshot[k].info =
                              InfoOf(discovered[FirstOf(discovered, name)])

C5_Witness ==
    /\ wpc = "complete"
    /\ \E i, j \in 1..Len(discovered) :
          /\ i < j
          /\ Qualifies(discovered[i]) /\ Qualifies(discovered[j])
          /\ ResolvedName(discovered[i]) = ResolvedName(discovered[j])
          /\ IsAirPods(discovered[i]) /\ ~IsAirPods(discovered[j])
          /\ \E k \in 1..Len(Snapshot) : Snapshot[k].info.type = "airpods"

HasOtherLength(ob) ==
    /\ APPLE_MANUFACTURER_ID \in DOMAIN ob.manufacturer_data
    /\ Len(ob.manufacturer_data[APPLE_MANUFACTURER_ID]) # DATA_LENGTH

\* C6: manufacturer data under ID 76 of a length other than 27 never makes an
\* "airpods" entry; its device is a "standard" entry only if it advertises
\* the battery service, and is otherwise left out.
C6_OtherLengthNeverAirPods ==
    /\ \A r \in DOMAIN heap : \A k \in 1..Len(heap[r]) :
          heap[r][k].info.type = "airpods"
              => Len(heap[r][k].info.data) = DATA_LENGTH
    /\ \A k \in 1..Len(last.devices) :
          last.devices[k].info.type = "airpods"
              => Len(last.devices[k].info.data) = DATA_LENGTH
    /\ LoopDone =>
          \A i \in 1..Len(discovered) :
              HasOtherLength(discovered[i]) =>
                  \A k \in 1..Len(Snapshot) :
                      IF Snapshot[k].info.type = "airpods"
                      THEN Snapshot[k].info.data #
                             discovered[i].manufacturer_data[APPLE_MANUFACTURER_ID]
                      ELSE Snapshot[k].info.address = discovered[i].address
                             => IsStandard(discovered[i])

C6_Witness ==
    /\ wpc = "complete"
    /\ Len(discovered) = 2
    /\ HasOtherLength(discovered[1]) /\ IsStandard(discovered[1])
    /\ HasOtherLength(discovered[2]) /\ ~IsStandard(discovered[2])
    /\ Len(Snapshot) = 1
    /\ Snapshot[1].info = [type |-> "standard",
                           address |-> discovered[1].address]

\* The reading of hex digit d
Reading(d) == IF d \in 0..10 THEN d * 10 ELSE NoneLevel

\* C7: Left, Right and Case are read from hex characters 12, 13 and 15 alone
\* (the two nibbles of byte 6 and the low nibble of byte 7): d * 10 for a
\* digit d of 0..10, none for 11..15.
C7_DecodeReadings ==
    (result # NotCalled /\ result # IndexError) =>
        /\ result.Left = Reading(raw[7] \div 16)
        /\ result.Right = Reading(raw[7] % 16)
        /\ result.Case = Reading(raw[8] % 16)

C7_Witness ==
    /\ result # NotCalled /\ result # IndexError
    /\ Len(raw) = DATA_LENGTH
    /\ hex(raw)[13] = "a" /\ hex(raw)[14] = "b" /\ hex(raw)[16] = "0"
    /\ result = [Left |-> 100, Right |-> NoneLevel, Case |-> 0]

\* C8: the dict scheduled for update_gui holds every entry classified in its
\* cycle when it is scheduled, and no step changes a dict while a scheduled
\* update_gui holds it.
C8_SnapshotCompleteAndFrozen ==
    [][ /\ \A r \in QueuedRefs(queue) \cap QueuedRefs(queue') :
              r \in DOMAIN heap' /\ heap'[r] = heap[r]
        /\ (Len(queue') > Len(queue) /\ queue'[Len(queue')].op = "update_gui")
              => heap'[queue'[Len(queue')].ref] =
                     ClassifyAll(discovered, Len(discovered)) ]_vars

C8_Witness ==
    /\ wpc = "classify" /\ idx > 1
    /\ Len(Snapshot) > 0
    /\ \E i \in 1..Len(queue) :
          /\ queue[i].op = "update_gui" /\ queue[i].cycle < cycle
          /\ queue[i].ref # devices_found
          /\ Len(heap[queue[i].ref]) > 0
          /\ heap[queue[i].ref] # Snapshot

\* C9: decoding the payload of an "airpods" entry of a snapshot never fails,
\* so update_gui renders every device of the snapshot it is given.
C9_DecodeNeverFails ==
    /\ \A r \in DOMAIN heap : \A k \in 1..Len(heap[r]) :
          heap[r][k].info.type = "airpods"
              => parse_airpods_data(heap[r][k].info.data) # IndexError
    /\ ~last.error
    /\ (last.op = "update_gui" /\ Len(last.devices) > 0)
          => /\ Names(device_frames) = Names(last.devices)
             /\ \A f \in 1..Len(device_frames) :
                   Len(device_frames[f].children) > 0

C9_Witness ==
    /\ last.op = "update_gui" /\ Len(last.devices) = 2
    /\ last.devices[1].info.type = "standard"
    /\ last.devices[2].info.type = "airpods"
    /\ Len(device_frames) = 2
    /\ \E f \in 1..2 : Len(device_frames[f].children) = 3
    /\ \E f \in 1..2 : device_frames[f].children = <<StandardLabel>>

\* C10 as stated: "No devices found. Retrying..." is never the status while
\* the worker idles.
C10_NeverNoDevicesWhileIdle == wpc = "sleep" => status # NoDevicesStatus

\* C10 as amended: "No devices found. Retrying..." is only in force until the
\* next callback, which is the cycle's scan-complete status, runs; once the
\* event loop has run every callback of the cycle, the status shown during
\* the idle period is "Scan complete. Next scan in 15s.".
C10_ScanCompleteOnceApplied ==
    /\ (wpc = "sleep" /\ queue = <<>>) => status = ScanCompleteStatus
    /\ status = NoDevicesStatus
          => \/ wpc = "complete" /\ last.cycle = cycle
             \/ /\ queue # <<>>
                /\ Head(queue) = StatusCall(last.cycle, ScanCompleteStatus)

C10_Witness ==
    /\ wpc = "sleep" /\ queue = <<>>
    /\ Len(Snapshot) = 0
    /\ last = Ran("status", cycle, ScanCompleteStatus, <<>>, FALSE)
    /\ status = ScanCompleteStatus

=============================================================================
